---- MODULE Spec2Model ----
(***************************************************************************)
(* The chat message relay handler of tlc-chat-ui: POST /chat as written in *)
(* src/app/(chat)/api/chat/route.ts and DELETE /chat as written in         *)
(* src/unnamed/part_003, running against a shared store of chats and       *)
(* messages.  Each await of a handler is one step, so requests interleave  *)
(* at the places where the code yields.                                    *)
(*                                                                         *)
(* String literals are the source's with its two non-ASCII characters      *)
(* written in ASCII (the dash and the apostrophe of the apology texts).    *)
(***************************************************************************)
EXTENDS Integers, Sequences, FiniteSets, TLC

\* ------------------------------------------------------------------ bounds

\* Request slots that run concurrently.
NumSlots == 2
\* Requests started over a run.
MaxRequests == 2
\* Turns already in the store when a run starts.
MaxSeedTurns == 2
\* maxMessagesPerDay of the two tiers of entitlementsByUserType.
MaxMessagesGuest == 1
MaxMessagesRegular == 2

Slots == 1..NumSlots
Users == {"u1", "u2"}
ChatIds == {"c1", "c2"}
NoUser == "anonymous"
NoChat == [id |-> "", userId |-> "", title |-> <<>>]

\* ------------------------------------------------------- JSON values (data)

JUndefined == [t |-> "undefined", s |-> "", n |-> 0, members |-> <<>>]
JNull == [t |-> "null", s |-> "", n |-> 0, members |-> <<>>]
JStr(s) == [t |-> "string", s |-> s, n |-> 0, members |-> <<>>]
JNum(n) == [t |-> "number", s |-> "", n |-> n, members |-> <<>>]
\* An object is the sequence of its members, in the order of the body.
JMember(k, v) == [k |-> k, v |-> v]
JObj(members) == [t |-> "object", s |-> "", n |-> 0, members |-> members]

\* data.key of a parsed body: undefined when data has no such member.
Prop(data, key) ==
  IF data.t = "object" /\ \E i \in DOMAIN data.members : data.members[i].k = key
  THEN LET i == CHOOSE i \in DOMAIN data.members :
                  /\ data.members[i].k = key
                  /\ \A j \in DOMAIN data.members :
                       data.members[j].k = key => j <= i
       IN data.members[i].v
  ELSE JUndefined

\* a ?? b
Nullish(a, b) == IF a.t \in {"null", "undefined"} THEN b ELSE a

\* String(v) of a scalar.
ToStr(v) ==
  CASE v.t = "string" -> v.s
    [] v.t = "number" -> ToString(v.n)
    [] v.t = "null" -> "null"
    [] OTHER -> "undefined"

\* JSON.stringify of a scalar.
StringifyScalar(v) ==
  CASE v.t = "string" -> "\"" \o v.s \o "\""
    [] v.t = "number" -> ToString(v.n)
    [] OTHER -> "null"

RECURSIVE StringifyMembers(_)
StringifyMembers(ms) ==
  IF ms = <<>> THEN ""
  ELSE "\"" \o Head(ms).k \o "\":" \o StringifyScalar(Head(ms).v)
       \o (IF Tail(ms) = <<>> THEN "" ELSE ",")
       \o StringifyMembers(Tail(ms))

\* JSON.stringify(data)
JSONstringify(data) ==
  IF data.t = "object" THEN "{" \o StringifyMembers(data.members) \o "}"
  ELSE StringifyScalar(data)

\* ------------------------------------------------- the webhook's responses

\* A response body: JSON text (given by the value it parses to) or other text.
JsonBody(data) == [json |-> TRUE, data |-> data, text |-> ""]
RawBody(text) == [json |-> FALSE, data |-> JUndefined, text |-> text]

\* await res.text(): the body as text.
BodyText(body) == IF body.json THEN JSONstringify(body.data) ELSE body.text

\* What fetch settles with.  threw: fetch rejected (transport error).
\* readFails: reading the body (res.text() / res.json()) rejects.
\* ct: the content-type header split in segments, <<>> when absent.
FetchThrew ==
  [threw |-> TRUE, ok |-> FALSE, status |-> 0, statusText |-> "",
   ct |-> <<>>, body |-> RawBody(""), readFails |-> FALSE]
Response(status, statusText, ct, body, readFails) ==
  [threw |-> FALSE, ok |-> (status >= 200 /\ status <= 299), status |-> status,
   statusText |-> statusText, ct |-> ct, body |-> body, readFails |-> readFails]

CtJson == <<"application/json">>
CtJsonCharset == <<"application/json", "; charset=utf-8">>
CtText == <<"text/plain">>

\* (a variant: every body is taken for JSON)
IsJsonContentTypeAlways(ct) == TRUE

\* ct.includes("application/json")
IsJsonContentType(ct) == \E i \in DOMAIN ct : ct[i] = "application/json"

\* ---------------------------------------------------------- the reply texts

\* (a variant: the message of the caught error is sent)
ErrorMessage == "fetch failed"

\* msg = "Sorry - I couldn't reach the agent right now."
ApologyText == "Sorry - I couldn't reach the agent right now."
NoReplyText == "I didn't receive a reply from the agent."
StatusText(res) ==
  "Sorry - the workflow returned " \o ToString(res.status) \o " "
    \o res.statusText \o "."

\* The result of the body of execute's try block: a text, or an exception.
Returned(text) == [threw |-> FALSE, text |-> text]
Thrown == [threw |-> TRUE, text |-> ""]

\* errText = await res.text().catch(() => "")
ErrText(res) == IF res.readFails THEN "" ELSE BodyText(res.body)

\* (a variant: the body is not looked at)
NonOkReplyStatusOnly(res) == StatusText(res)

\* msg = errText || `Sorry - the workflow returned ...`
NonOkReply(res) == IF ErrText(res) # "" THEN ErrText(res) ELSE StatusText(res)

\* data = await res.json().catch(() => ({}))
JsonData(res) ==
  IF res.readFails \/ ~res.body.json THEN JObj(<<>>) ELSE res.body.data

\* data.output ?? data.answer ?? data.text ?? data.message ?? ""
FirstKey(data) ==
  Nullish(Prop(data, "output"),
    Nullish(Prop(data, "answer"),
      Nullish(Prop(data, "text"),
        Nullish(Prop(data, "message"), JStr("")))))

\* String(...) || JSON.stringify(data); reading a property of null throws.
JsonAnswer(data) ==
  IF data.t = "null" THEN Thrown
  ELSE IF ToStr(FirstKey(data)) # "" THEN Returned(ToStr(FirstKey(data)))
  ELSE Returned(JSONstringify(data))

\* answer = await res.text(), which is not caught here.
TextAnswer(res) == IF res.readFails THEN Thrown ELSE Returned(BodyText(res.body))

\* The answer of an ok response, before the empty answer is replaced.
Extract(res) ==
  IF IsJsonContentType(res.ct) THEN JsonAnswer(JsonData(res)) ELSE TextAnswer(res)

\* (a variant: the answer is sent as it is)
OrNoReplyAsIs(answer) == answer

\* if (!answer) answer = "I didn't receive a reply from the agent."
OrNoReply(answer) == IF answer = "" THEN NoReplyText ELSE answer

\* The text execute writes as the delta, for what fetch settled with.
ReplyText(res) ==
  IF res.threw THEN ApologyText
  ELSE IF ~res.ok THEN NonOkReply(res)
  ELSE IF Extract(res).threw THEN ApologyText
  ELSE OrNoReply(Extract(res).text)

\* What the webhook may answer with.
JsonDatas ==
  { JObj(<<>>),
    JObj(<<JMember("answer", JStr("42"))>>),
    JObj(<<JMember("output", JStr("")), JMember("answer", JStr("42"))>>),
    JObj(<<JMember("output", JStr("out")), JMember("answer", JStr("42"))>>),
    JObj(<<JMember("output", JNull), JMember("text", JStr("t"))>>),
    JObj(<<JMember("message", JNum(7))>>),
    JObj(<<JMember("result", JStr("r"))>>),
    JNull }
Bodies == {RawBody(""), RawBody("hello")} \cup {JsonBody(d) : d \in JsonDatas}
OkResponses ==
  { Response(200, "OK", ct, body, readFails) :
      ct \in {CtJson, CtJsonCharset, CtText, <<>>}, body \in Bodies,
      readFails \in BOOLEAN }
NonOkResponses ==
  { Response(status, "Service Unavailable", ct, body, readFails) :
      status \in {503}, ct \in {CtJson, CtText},
      body \in {RawBody(""), RawBody("down"),
                JsonBody(JObj(<<JMember("answer", JStr("42"))>>))},
      readFails \in BOOLEAN }
FetchResults == {FetchThrew} \cup OkResponses \cup NonOkResponses

\* One result of each kind, for the runs in which requests interleave.
CoreResults ==
  { FetchThrew,
    Response(503, "Service Unavailable", CtText, RawBody(""), FALSE),
    Response(200, "OK", CtText, RawBody("hello"), FALSE) }

\* ------------------------------------------------------------------- title

\* A text is the sequence of its characters. A part of a message is an
\* object of type "text" or "input_text" with its text, an object of
\* another type ("file"), a bare string, or null.
TextPart(text) == [kind |-> "text", text |-> text]
InputTextPart(text) == [kind |-> "input_text", text |-> text]
StringPart(text) == [kind |-> "string", text |-> text]
FilePart == [kind |-> "file", text |-> <<>>]
NullPart == [kind |-> "null", text |-> <<>>]

\* fallback = "New chat"
NewChatTitle == <<"N", "e", "w", " ", "c", "h", "a", "t">>
\* String(p) of an object
ObjectObject ==
  <<"[", "o", "b", "j", "e", "c", "t", " ", "O", "b", "j", "e", "c", "t", "]">>

\* slice(0, 8)
TitleWords == 8

IsSpace(ch) == ch \in {" ", "\t", "\n"}

RECURSIVE TrimStart(_)
TrimStart(text) ==
  IF text # <<>> /\ IsSpace(Head(text)) THEN TrimStart(Tail(text)) ELSE text

RECURSIVE TrimEnd(_)
TrimEnd(text) ==
  IF text # <<>> /\ IsSpace(text[Len(text)])
  THEN TrimEnd(SubSeq(text, 1, Len(text) - 1)) ELSE text

\* firstText.trim()
Trim(text) == TrimEnd(TrimStart(text))

\* The places of text where a run of other than whitespace starts, and the
\* place where the run that starts at i ends.
RunStarts(text) ==
  { i \in DOMAIN text :
      ~IsSpace(text[i]) /\ (i = 1 \/ IsSpace(text[i - 1])) }
RunEnd(text, i) ==
  CHOOSE j \in i..Len(text) :
    /\ \A k \in i..j : ~IsSpace(text[k])
    /\ (j = Len(text) \/ IsSpace(text[j + 1]))
NthStart(text, n) ==
  CHOOSE i \in RunStarts(text) :
    Cardinality({ j \in RunStarts(text) : j < i }) = n - 1

\* text.split(/\s+/): the pieces between the runs of whitespace, an empty
\* piece before a leading run and after a trailing one.
Split(text) ==
  (IF text = <<>> \/ IsSpace(text[1]) THEN << <<>> >> ELSE <<>>)
  \o [n \in 1..Cardinality(RunStarts(text)) |->
        SubSeq(text, NthStart(text, n), RunEnd(text, NthStart(text, n)))]
  \o (IF text # <<>> /\ IsSpace(text[Len(text)]) THEN << <<>> >> ELSE <<>>)

\* pieces.slice(0, n)
Slice(pieces, n) ==
  SubSeq(pieces, 1, IF Len(pieces) < n THEN Len(pieces) ELSE n)

RECURSIVE Join(_, _)
\* pieces.join(sep)
Join(pieces, sep) ==
  IF pieces = <<>> THEN <<>>
  ELSE IF Len(pieces) = 1 THEN pieces[1]
  ELSE pieces[1] \o sep \o Join(Tail(pieces), sep)

\* The part the loop of makeTitleFromMessage stops at: 0 when it runs out.
FirstTextPart(parts) ==
  LET hits == { i \in DOMAIN parts :
                  parts[i].kind \in {"text", "input_text", "string"} }
  IN IF hits = {} THEN 0
     ELSE CHOOSE i \in hits : \A j \in hits : i <= j

\* String(parts[0] ?? "")
StringOfFirst(parts) ==
  IF parts = <<>> \/ parts[1].kind = "null" THEN <<>>
  ELSE IF parts[1].kind = "string" THEN parts[1].text
  ELSE ObjectObject

\* makeTitleFromMessage(msg), of msg.parts
makeTitleFromMessage(parts) ==
  LET found == IF FirstTextPart(parts) = 0 THEN <<>>
               ELSE parts[FirstTextPart(parts)].text
      firstText == IF found = <<>> THEN StringOfFirst(parts) ELSE found
      words == Join(Slice(Split(Trim(firstText)), TitleWords), <<" ">>)
  IN IF firstText = <<>> THEN NewChatTitle
     ELSE IF words = <<>> THEN NewChatTitle
     ELSE words

\* The parts of the incoming message of the runs that are not about titles.
UserParts == <<TextPart(<<"h", "i">>)>>
CoreParts == {UserParts}

\* n times the character ch
Repeat(ch, n) == [i \in 1..n |-> ch]

\* Messages of every shape the title is made from: no parts, only objects
\* that hold no text, text after such an object, more words than the title
\* takes, a word longer than a title, blank text, empty text.
TitleParts ==
  { <<>>,
    UserParts,
    <<FilePart>>,
    <<NullPart>>,
    <<FilePart, TextPart(<<"h", "e", "y", " ", "y", "o", "u">>)>>,
    <<InputTextPart(<<" ", "a", "s", "k", " ", "\t", "m", "e", " ">>)>>,
    <<StringPart(<<"y", "o">>)>>,
    <<TextPart(Join([i \in 1..(TitleWords + 1) |-> <<"w">>], <<" ">>))>>,
    <<TextPart(Repeat("a", 81))>>,
    <<TextPart(<<" ", " ">>)>>,
    <<TextPart(<<>>)>> }

\* ------------------------------------------------------------------- store

\* The text of the incoming message.
UserText == "hi"

\* A chat row and a message row.
ChatRow(id, userId, title) == [id |-> id, userId |-> userId, title |-> title]
MessageRow(id, chatId, role, text) ==
  [id |-> id, chatId |-> chatId, role |-> role, text |-> text]

RECURSIVE SelectRows(_, _, _)
\* The rows of a table whose field f is v, in the order of creation.
SelectRows(rows, f, v) ==
  IF rows = <<>> THEN <<>>
  ELSE (IF Head(rows)[f] = v THEN <<Head(rows)>> ELSE <<>>)
       \o SelectRows(Tail(rows), f, v)

RECURSIVE RemoveRows(_, _, _)
RemoveRows(rows, f, v) ==
  IF rows = <<>> THEN <<>>
  ELSE (IF Head(rows)[f] = v THEN <<>> ELSE <<Head(rows)>>)
       \o RemoveRows(Tail(rows), f, v)

\* getChatById({ id }): the chat row of that id, or nothing.
getChatById(chatRows, id) ==
  IF SelectRows(chatRows, "id", id) = <<>> THEN NoChat
  ELSE Head(SelectRows(chatRows, "id", id))

\* getMessagesByChatId({ id }): the chat's messages in creation order.
getMessagesByChatId(messageRows, id) == SelectRows(messageRows, "chatId", id)

\* getMessageCountByUserId({ id, differenceInHours: 24 }): the user messages
\* in the chats of that user; every row of the model is within the window.
getMessageCountByUserId(chatRows, messageRows, userId) ==
  Cardinality({ i \in DOMAIN messageRows :
                  /\ messageRows[i].role = "user"
                  /\ getChatById(chatRows, messageRows[i].chatId).userId = userId })

\* deleteChatById({ id }): the chat goes, and its messages with it.
deleteChatById(rows, f, id) == RemoveRows(rows, f, id)

\* session.user.type and entitlementsByUserType[userType].maxMessagesPerDay
UserType(userId) == IF userId = "u1" THEN "guest" ELSE "regular"
maxMessagesPerDay(userType) ==
  IF userType = "guest" THEN MaxMessagesGuest ELSE MaxMessagesRegular

\* ------------------------------------------------------------------- state

VARIABLES
  chats,      \* the chat table, in creation order
  messages,   \* the message table, in creation order
  env,        \* process.env.N8N_WEBHOOK_URL and the methods the writer has
  started,    \* requests started so far
  pc,         \* per slot: the await the request is at
  loc,        \* per slot: the handler's locals
  stream,     \* per slot: the chunks written and how the writer was finished
  response,   \* per slot: the response returned to the caller
  log         \* per slot: the calls the request has made, in order

vars == <<chats, messages, env, started, pc, loc, stream, response, log>>

\* No result yet: fetch has not settled.
NoRes == [FetchThrew EXCEPT !.status = -1]
IdleLoc ==
  [kind |-> "", n |-> 0, id |-> "", messageId |-> 0, parts |-> <<>>,
   user |-> NoUser, chat |-> NoChat,
   messageCount |-> 0, history |-> <<>>, res |-> NoRes, msgId |-> 0, assistantFullText |-> "",
   unhandled |-> FALSE]
IdleStream == [chunks |-> <<>>, finished |-> ""]

WriterMethods == {"end", "close", "finish"}

RECURSIVE SeedMessages(_)
\* The rows that k earlier turns of u1 in chat c1 left: each turn a user
\* message and the assistant's reply.
SeedMessages(k) ==
  IF k = 0 THEN <<>>
  ELSE SeedMessages(k - 1)
       \o << MessageRow(-2 * k, "c1", "user", UserText),
             MessageRow(-2 * k + 1, "c1", "assistant", "hello") >>
SeedChats(k) ==
  IF k = 0 THEN <<>>
  ELSE <<ChatRow("c1", "u1", makeTitleFromMessage(UserParts))>>

\* The store holds what earlier requests left, the environment is fixed for
\* the run, and no request is in flight.
InitWith(seeds, writers, first) ==
  /\ \E k \in seeds : chats = SeedChats(k) /\ messages = SeedMessages(k)
  /\ env \in [webhookUrl : {"", "https://n8n.example/webhook"},
              writer : writers]
  /\ started = first
  /\ pc = [r \in Slots |-> "idle"]
  /\ loc = [r \in Slots |-> IdleLoc]
  /\ stream = [r \in Slots |-> IdleStream]
  /\ response = [r \in Slots |-> ""]
  /\ log = [r \in Slots |-> <<>>]

Init == InitWith({0, MaxSeedTurns}, {{}, {"close", "finish"}}, 0)

\* The handler of slot r returns res to the caller.
Respond(r, res) == response' = [response EXCEPT ![r] = res]

\* The handler returns res and nothing of the request is left to run.
Return(r, res) ==
  /\ Respond(r, res)
  /\ pc' = [pc EXCEPT ![r] = "done"]

Goto(r, label) ==
  /\ pc' = [pc EXCEPT ![r] = label]
  /\ UNCHANGED response

Log(r, call) == log' = [log EXCEPT ![r] = Append(@, call)]

\* finishWriter(writer): the first of end, close, finish the writer has is
\* called; "" when it has none of them and nothing is called.
finishWriter(writer) ==
  IF "end" \in writer THEN "end"
  ELSE IF "close" \in writer THEN "close"
  ELSE IF "finish" \in writer THEN "finish"
  ELSE ""

\* (a variant: the count is held against the quota of the regular tier)
OverQuotaOfRegular(messageCount, userId) == messageCount > MaxMessagesRegular

\* (a variant: a count that equals the quota is rejected as well)
OverQuotaAtQuota(messageCount, userId) ==
  messageCount >= maxMessagesPerDay(UserType(userId))

\* messageCount > entitlementsByUserType[userType].maxMessagesPerDay
OverQuota(messageCount, userId) ==
  messageCount > maxMessagesPerDay(UserType(userId))

\* (a variant: the comparison of the owner is inverted)
NotOwnerInverted(chat, userId) == chat # NoChat /\ chat.userId = userId

\* chat && chat.userId !== session.user.id
NotOwner(chat, userId) == chat # NoChat /\ chat.userId # userId

\* (a variant: the chat is never created)
AfterGuardNoCreate(chat) == "saveMessages"

\* if (!chat) saveChat(...), and then on to the user's message.
AfterGuard(chat) == IF chat = NoChat THEN "saveChat" ELSE "saveMessages"

\* (a variant: the owner is not compared)
DeleteForbiddenNever(chat, userId) == FALSE

\* (a variant: a chat that does not exist is not forbidden)
DeleteForbiddenIfPresent(chat, userId) == chat # NoChat /\ chat.userId # userId

\* chat?.userId !== session.user.id
DeleteForbidden(chat, userId) ==
  IF chat = NoChat THEN TRUE ELSE chat.userId # userId

\* convertToUIMessages(rows): the rows as UI messages.
UIMessage(id, role, text) == [id |-> id, role |-> role, text |-> text]
convertToUIMessages(rows) ==
  [i \in DOMAIN rows |-> UIMessage(rows[i].id, rows[i].role, rows[i].text)]

\* ------------------------------------------------------------- POST /chat

\* The ids of the n-th request: message.id, as the client made it, and the
\* two calls of generateUUID (msgId in execute, the id of the fallback row).
MessageIdOf(n) == 3 * n
MsgIdOf(n) == 3 * n + 1
FallbackIdOf(n) == 3 * n + 2

\* (a variant: the session is not looked at)
UnauthorizedNever(session) == FALSE

\* !session?.user
Unauthorized(session) == session = NoUser

\* The lowest idle slot takes the next request.
Free(r) ==
  /\ pc[r] = "idle"
  /\ \A q \in Slots : q < r => pc[q] # "idle"
  /\ started < MaxRequests

\* 1) body = postRequestBodySchema.parse(await request.json())
\* 2) session = await auth()
\* (two awaits that read nothing of the store, taken as one step)
PostParse(r, parts) ==
  /\ Free(r)
  /\ started' = started + 1
  /\ \E valid \in BOOLEAN, id \in ChatIds, session \in Users \cup {NoUser} :
       IF ~valid
       THEN /\ Return(r, "bad_request:api")
            /\ loc' = [loc EXCEPT ![r].kind = "POST", ![r].n = started + 1]
       ELSE IF Unauthorized(session)
       THEN /\ Return(r, "unauthorized:chat")
            /\ loc' = [loc EXCEPT ![r].kind = "POST", ![r].n = started + 1,
                                  ![r].id = id,
                                  ![r].messageId = MessageIdOf(started + 1),
                                  ![r].parts = parts,
                                  ![r].user = session]
       ELSE /\ Goto(r, "rateLimit")
            /\ loc' = [loc EXCEPT ![r].kind = "POST", ![r].n = started + 1,
                                  ![r].id = id,
                                  ![r].messageId = MessageIdOf(started + 1),
                                  ![r].parts = parts,
                                  ![r].user = session]
  /\ UNCHANGED <<chats, messages, env, stream, log>>

\* 3) messageCount = await getMessageCountByUserId(...)
PostRateLimit(r) ==
  /\ pc[r] = "rateLimit"
  /\ Log(r, "getMessageCountByUserId")
  /\ LET messageCount ==
           getMessageCountByUserId(chats, messages, loc[r].user) IN
       /\ loc' = [loc EXCEPT ![r].messageCount = messageCount]
       /\ IF OverQuota(messageCount, loc[r].user)
          THEN Return(r, "rate_limit:chat")
          ELSE Goto(r, "getChat")
  /\ UNCHANGED <<chats, messages, env, started, stream>>

\* 4) chat = await getChatById({ id })
PostGetChat(r) ==
  /\ pc[r] = "getChat"
  /\ Log(r, "getChatById")
  /\ LET chat == getChatById(chats, loc[r].id) IN
       /\ loc' = [loc EXCEPT ![r].chat = chat]
       /\ IF NotOwner(chat, loc[r].user) THEN Return(r, "forbidden:chat")
          ELSE Goto(r, AfterGuard(chat))
  /\ UNCHANGED <<chats, messages, env, started, stream>>

\* (a variant: the chat is saved with no owner)
NewChatOfNobody(id, userId, parts) ==
  ChatRow(id, NoUser, makeTitleFromMessage(parts))

\* The row of saveChat({ id, userId: session.user.id, title, ... }).
NewChat(id, userId, parts) == ChatRow(id, userId, makeTitleFromMessage(parts))

\* (a variant: the user's message is inserted twice)
UserMessagesTwice(id, messageId) ==
  << MessageRow(messageId, id, "user", UserText),
     MessageRow(messageId, id, "user", UserText) >>

\* The rows of saveMessages({ messages: [{ chatId: id, id: message.id,
\* role: "user", parts: message.parts, ... }] }).
UserMessages(id, messageId) == <<MessageRow(messageId, id, "user", UserText)>>

\* if (!chat) await saveChat({ id, userId: session.user.id, ... })
PostSaveChat(r) ==
  /\ pc[r] = "saveChat"
  /\ chats' = Append(chats, NewChat(loc[r].id, loc[r].user, loc[r].parts))
  /\ Log(r, "saveChat")
  /\ Goto(r, "saveMessages")
  /\ UNCHANGED <<messages, env, started, loc, stream>>

\* 5) await saveMessages({ messages: [the user's message] })
PostSaveMessages(r) ==
  /\ pc[r] = "saveMessages"
  /\ messages' = messages \o UserMessages(loc[r].id, loc[r].messageId)
  /\ Log(r, "saveMessages")
  /\ Goto(r, "getMessages")
  /\ UNCHANGED <<chats, env, started, loc, stream>>

\* The chunks execute writes around the reply text.
MessageStart(msgId) == [type |-> "message-start", id |-> msgId, delta |-> ""]
TextDelta(msgId, text) == [type |-> "text-delta", id |-> msgId, delta |-> text]
\* (a variant: the end of the message is given an id of its own)
MessageEndOwnId(msgId) == [type |-> "message-end", id |-> msgId + 1, delta |-> ""]
MessageEnd(msgId) == [type |-> "message-end", id |-> msgId, delta |-> ""]

\* 6) history = [...convertToUIMessages(await getMessagesByChatId({ id })),
\* message]; then the check of N8N_WEBHOOK_URL, and with it set the stream is
\* created: execute runs up to its await of fetch and the Response is returned.
PostGetMessages(r) ==
  /\ pc[r] = "getMessages"
  /\ loc' = [loc EXCEPT
       ![r].history =
          Append(convertToUIMessages(getMessagesByChatId(messages, loc[r].id)),
                 UIMessage(loc[r].messageId, "user", UserText)),
       ![r].msgId = IF env.webhookUrl = "" THEN 0 ELSE MsgIdOf(loc[r].n)]
  /\ IF env.webhookUrl = ""
     THEN /\ Return(r, "offline:chat")
          /\ Log(r, "getMessagesByChatId")
          /\ UNCHANGED stream
     ELSE /\ Respond(r, "stream")
          /\ pc' = [pc EXCEPT ![r] = "fetch"]
          /\ stream' = [stream EXCEPT
               ![r].chunks = <<MessageStart(MsgIdOf(loc[r].n))>>]
          /\ log' = [log EXCEPT ![r] = @ \o <<"getMessagesByChatId", "fetch">>]
  /\ UNCHANGED <<chats, messages, env, started>>

\* The branch of execute that handles what fetch settled with.
ExecutePath(res) ==
  IF res.threw THEN "catch"
  ELSE IF ~res.ok THEN "not-ok"
  ELSE IF Extract(res).threw THEN "catch"
  ELSE "answer"

\* The rest of execute, from the settling of fetch: assistantFullText is set,
\* the text delta and the message end are written, finishWriter is called.
PostFetch(r, res) ==
  /\ pc[r] = "fetch"
  /\ loc' = [loc EXCEPT ![r].res = res,
                        ![r].assistantFullText = ReplyText(res)]
  /\ stream' = [stream EXCEPT
       ![r].chunks = @ \o <<TextDelta(loc[r].msgId, ReplyText(res)),
                            MessageEnd(loc[r].msgId)>>,
       ![r].finished = finishWriter(env.writer)]
  /\ Log(r, "finishWriter")
  /\ Goto(r, "onFinish")
  /\ UNCHANGED <<chats, messages, env, started>>

RECURSIVE DeltaText(_)
\* The text of the text deltas of a stream, in order.
DeltaText(chunks) ==
  IF chunks = <<>> THEN ""
  ELSE (IF Head(chunks).type = "text-delta" THEN Head(chunks).delta ELSE "")
       \o DeltaText(Tail(chunks))

\* onFinish({ messages }): the message the stream produced is saved; when
\* that save throws, the catch block goes on to the fallback if there is text.
PostOnFinish(r, saveFails) ==
  /\ pc[r] = "onFinish"
  /\ loc' = [loc EXCEPT ![r].res = NoRes]
  /\ Log(r, "saveMessages:onFinish")
  /\ IF ~saveFails
     THEN /\ messages' =
               Append(messages,
                      MessageRow(loc[r].msgId, loc[r].id, "assistant",
                                 DeltaText(stream[r].chunks)))
          /\ Goto(r, "done")
     ELSE /\ UNCHANGED messages
          /\ IF loc[r].assistantFullText # "" THEN Goto(r, "fallback")
             ELSE Goto(r, "done")
  /\ UNCHANGED <<chats, env, started, stream>>

\* A fallback that saves the message twice.
FallbackMessagesTwice(id, chatId, text) ==
  << MessageRow(id, chatId, "assistant", text),
     MessageRow(id, chatId, "assistant", text) >>

\* The messages of the fallback save: one assistant message holding
\* assistantFullText under a fresh id.
FallbackMessages(id, chatId, text) ==
  << MessageRow(id, chatId, "assistant", text) >>

\* The fallback save of onFinish's catch block; when it throws too, the
\* exception leaves onFinish.
PostFallback(r, saveFails) ==
  /\ pc[r] = "fallback"
  /\ Log(r, "saveMessages:fallback")
  /\ IF ~saveFails
     THEN /\ messages' =
               messages \o FallbackMessages(FallbackIdOf(loc[r].n), loc[r].id,
                                            loc[r].assistantFullText)
          /\ UNCHANGED loc
     ELSE /\ UNCHANGED messages
          /\ loc' = [loc EXCEPT ![r].unhandled = TRUE]
  /\ Goto(r, "done")
  /\ UNCHANGED <<chats, env, started, stream>>

\* ------------------------------- POST /chat, the variants of part_003

\* The variants of part_003 are the handler above up to step 4; "saveMessages"
\* is the point after it. Their step 5 reads the history first:
\* uiHistory = [...convertToUIMessages(await getMessagesByChatId({ id })),
\* message]
PostHistory(r) ==
  /\ pc[r] = "saveMessages"
  /\ loc' = [loc EXCEPT
       ![r].history =
          Append(convertToUIMessages(getMessagesByChatId(messages, loc[r].id)),
                 UIMessage(loc[r].messageId, "user", UserText))]
  /\ Log(r, "getMessagesByChatId")
  /\ Goto(r, "saveUser")
  /\ UNCHANGED <<chats, messages, env, started, stream>>

\* w.write(chunk, ...): the chunks are in the stream unless the stream was
\* finished before.
Written(r, chunks) ==
  IF stream[r].finished = "" THEN stream[r].chunks \o chunks
  ELSE stream[r].chunks

\* finishWriter(w) on a stream that may be finished already.
Finished(r) ==
  IF stream[r].finished = "" THEN finishWriter(env.writer)
  ELSE stream[r].finished

\* The variant with the detached task. await saveMessages(the user's
\* message); the check of N8N_WEBHOOK_URL; createUIMessageStream: execute
\* starts the task, which runs up to its await of fetch, and returns; the
\* Response is returned.
DetachedSaveMessages(r) ==
  /\ pc[r] = "saveUser"
  /\ messages' = messages \o UserMessages(loc[r].id, loc[r].messageId)
  /\ IF env.webhookUrl = ""
     THEN /\ Return(r, "offline:chat")
          /\ Log(r, "saveMessages")
          /\ UNCHANGED loc
     ELSE /\ Respond(r, "stream")
          /\ pc' = [pc EXCEPT ![r] = "task"]
          /\ loc' = [loc EXCEPT ![r].msgId = MsgIdOf(loc[r].n)]
          /\ log' = [log EXCEPT ![r] = @ \o <<"saveMessages", "fetch">>]
  /\ UNCHANGED <<chats, env, started, stream>>

\* execute has returned with the task still running and nothing waits for
\* the task: the stream is finalized at a time of the library's choosing,
\* before the task writes or after.
DetachedClose(r) ==
  /\ pc[r] \in {"task", "taskOver"}
  /\ stream[r].finished = ""
  /\ stream' = [stream EXCEPT ![r].finished = "return"]
  /\ Log(r, "close")
  /\ UNCHANGED <<chats, messages, env, started, pc, loc, response>>

\* The rest of the task, from the settling of fetch: it writes the message
\* start, the text delta and the message end, and calls finishWriter.
DetachedFetch(r, res) ==
  /\ pc[r] = "task"
  /\ loc' = [loc EXCEPT ![r].res = res]
  /\ stream' = [stream EXCEPT
       ![r].chunks = Written(r, << MessageStart(loc[r].msgId),
                                   TextDelta(loc[r].msgId, ReplyText(res)),
                                   MessageEnd(loc[r].msgId) >>),
       ![r].finished = Finished(r)]
  /\ log' = [log EXCEPT ![r] = @ \o <<"write", "finishWriter">>]
  /\ Goto(r, "taskOver")
  /\ UNCHANGED <<chats, messages, env, started>>

\* onFinish({ messages }) of this variant, called when the stream is over:
\* the messages the stream produced are saved, with no try around the save.
DetachedOnFinish(r, saveFails) ==
  /\ pc[r] \in {"task", "taskOver"}
  /\ stream[r].finished # ""
  /\ ~\E i \in DOMAIN log[r] : log[r][i] = "saveMessages:onFinish"
  /\ Log(r, "saveMessages:onFinish")
  /\ IF saveFails
     THEN /\ loc' = [loc EXCEPT ![r].unhandled = TRUE]
          /\ UNCHANGED messages
     ELSE /\ UNCHANGED loc
          /\ messages' =
               IF stream[r].chunks = <<>> THEN messages
               ELSE Append(messages,
                           MessageRow(loc[r].msgId, loc[r].id, "assistant",
                                      DeltaText(stream[r].chunks)))
  /\ UNCHANGED <<chats, env, started, pc, stream, response>>

\* The variant that persists the reply inside execute.

\* `Sorry - the agent returned ${res.status} ${res.statusText}.`
InlineStatusText(res) ==
  "Sorry - the agent returned " \o ToString(res.status) \o " "
    \o res.statusText \o "."

\* assistantText = errText || `Sorry - the agent returned ...`
InlineNonOkReply(res) ==
  IF ErrText(res) # "" THEN ErrText(res) ELSE InlineStatusText(res)

\* data.output ?? data.answer ?? data.text ?? data.message ?? data.result ?? ""
InlineFirstKey(data) ==
  Nullish(Prop(data, "output"),
    Nullish(Prop(data, "answer"),
      Nullish(Prop(data, "text"),
        Nullish(Prop(data, "message"),
          Nullish(Prop(data, "result"), JStr(""))))))

\* String(...) || JSON.stringify(data); reading a property of null throws.
InlineJsonAnswer(data) ==
  IF data.t = "null" THEN Thrown
  ELSE IF ToStr(InlineFirstKey(data)) # ""
  THEN Returned(ToStr(InlineFirstKey(data)))
  ELSE Returned(JSONstringify(data))

\* assistantText as the try block has it before the empty text is replaced,
\* or the exception that takes the block to its catch.
InlineExtract(res) ==
  IF res.threw THEN Thrown
  ELSE IF ~res.ok THEN Returned(InlineNonOkReply(res))
  ELSE IF IsJsonContentType(res.ct) THEN InlineJsonAnswer(JsonData(res))
  ELSE TextAnswer(res)

\* The chunks this variant writes around the reply text.
TextStart(msgId) == [type |-> "text-start", id |-> msgId, delta |-> ""]
TextEnd(msgId) == [type |-> "text-end", id |-> msgId, delta |-> ""]

\* await saveMessages(the user's message); the check of N8N_WEBHOOK_URL;
\* createUIMessageStream: execute writes text-start and runs up to its await
\* of fetch; the Response is returned.
InlineSaveMessages(r) ==
  /\ pc[r] = "saveUser"
  /\ messages' = messages \o UserMessages(loc[r].id, loc[r].messageId)
  /\ IF env.webhookUrl = ""
     THEN /\ Return(r, "offline:chat")
          /\ Log(r, "saveMessages")
          /\ UNCHANGED <<loc, stream>>
     ELSE /\ Respond(r, "stream")
          /\ pc' = [pc EXCEPT ![r] = "inlineFetch"]
          /\ loc' = [loc EXCEPT ![r].msgId = MsgIdOf(loc[r].n)]
          /\ stream' = [stream EXCEPT
               ![r].chunks = <<TextStart(MsgIdOf(loc[r].n))>>]
          /\ log' = [log EXCEPT ![r] = @ \o <<"saveMessages", "fetch">>]
  /\ UNCHANGED <<chats, env, started>>

\* execute from the settling of fetch up to its await of saveMessages, in
\* the try block or, when the block threw before its writes, in the catch
\* block: the text delta and text-end are written, finishWriter is called.
InlineFetch(r, res) ==
  /\ pc[r] = "inlineFetch"
  /\ LET text == IF InlineExtract(res).threw THEN ApologyText
                 ELSE OrNoReply(InlineExtract(res).text) IN
       /\ loc' = [loc EXCEPT ![r].res = res, ![r].assistantFullText = text]
       /\ stream' = [stream EXCEPT
            ![r].chunks = Written(r, << TextDelta(loc[r].msgId, text),
                                        TextEnd(loc[r].msgId) >>),
            ![r].finished = Finished(r)]
  /\ log' = [log EXCEPT ![r] = @ \o <<"write", "finishWriter">>]
  /\ Goto(r, IF InlineExtract(res).threw THEN "inlineSaveCatch"
             ELSE "inlineSaveTry")
  /\ UNCHANGED <<chats, messages, env, started>>

\* await saveMessages(the assistant's message) of the try block; when it
\* throws, the catch block runs: the apology is written as a text delta with
\* its text-end, finishWriter is called, up to the await of saveMessages.
InlineSaveTry(r, saveFails) ==
  /\ pc[r] = "inlineSaveTry"
  /\ IF ~saveFails
     THEN /\ messages' =
               Append(messages,
                      MessageRow(FallbackIdOf(loc[r].n), loc[r].id, "assistant",
                                 loc[r].assistantFullText))
          /\ Log(r, "saveMessages:execute")
          /\ Goto(r, "done")
          /\ UNCHANGED <<loc, stream>>
     ELSE /\ UNCHANGED messages
          /\ loc' = [loc EXCEPT ![r].assistantFullText = ApologyText]
          /\ stream' = [stream EXCEPT
               ![r].chunks = Written(r, << TextDelta(loc[r].msgId, ApologyText),
                                           TextEnd(loc[r].msgId) >>),
               ![r].finished = Finished(r)]
          /\ log' = [log EXCEPT
               ![r] = @ \o <<"saveMessages:execute", "write", "finishWriter">>]
          /\ Goto(r, "inlineSaveCatch")
  /\ UNCHANGED <<chats, env, started>>

\* await saveMessages(the apology) of the catch block; when it throws, the
\* exception leaves execute.
InlineSaveCatch(r, saveFails) ==
  /\ pc[r] = "inlineSaveCatch"
  /\ Log(r, "saveMessages:catch")
  /\ IF ~saveFails
     THEN /\ messages' =
               Append(messages,
                      MessageRow(FallbackIdOf(loc[r].n), loc[r].id, "assistant",
                                 loc[r].assistantFullText))
          /\ UNCHANGED loc
     ELSE /\ UNCHANGED messages
          /\ loc' = [loc EXCEPT ![r].unhandled = TRUE]
  /\ Goto(r, "done")
  /\ UNCHANGED <<chats, env, started, stream>>

\* ----------------------------------------------------------- DELETE /chat

\* id = searchParams.get("id"), "" standing for no id given, and
\* session = await auth()
DeleteParse(r) ==
  /\ Free(r)
  /\ started' = started + 1
  /\ \E id \in ChatIds \cup {""}, session \in Users \cup {NoUser} :
       IF id = ""
       THEN /\ Return(r, "bad_request:api")
            /\ loc' = [loc EXCEPT ![r].kind = "DELETE", ![r].n = started + 1]
       ELSE IF Unauthorized(session)
       THEN /\ Return(r, "unauthorized:chat")
            /\ loc' = [loc EXCEPT ![r].kind = "DELETE", ![r].n = started + 1,
                                  ![r].id = id]
       ELSE /\ Goto(r, "d_getChat")
            /\ loc' = [loc EXCEPT ![r].kind = "DELETE", ![r].n = started + 1,
                                  ![r].id = id, ![r].user = session]
  /\ UNCHANGED <<chats, messages, env, stream, log>>

\* chat = await getChatById({ id })
DeleteGetChat(r) ==
  /\ pc[r] = "d_getChat"
  /\ Log(r, "getChatById")
  /\ LET chat == getChatById(chats, loc[r].id) IN
       /\ loc' = [loc EXCEPT ![r].chat = chat]
       /\ IF DeleteForbidden(chat, loc[r].user)
          THEN Return(r, "forbidden:chat")
          ELSE Goto(r, "d_delete")
  /\ UNCHANGED <<chats, messages, env, started, stream>>

\* deletedChat = await deleteChatById({ id }); status 200
DeleteChat(r) ==
  /\ pc[r] = "d_delete"
  /\ chats' = deleteChatById(chats, "id", loc[r].id)
  /\ messages' = deleteChatById(messages, "chatId", loc[r].id)
  /\ Log(r, "deleteChatById")
  /\ Return(r, "deleted")
  /\ UNCHANGED <<env, started, loc, stream>>

\* ---------------------------------------------------- GET /chat/{id}/stream

\* (a variant: no content)
NoContent == "204"

\* NextResponse.json({ error: "Resumable streams are disabled." },
\* { status: 404 })
ResumableStreamsDisabled == "404 {\"error\":\"Resumable streams are disabled.\"}"

\* GET(): the handler takes no argument and looks at nothing; id is the id
\* of the route, a chat's or not.
GetStream(r) ==
  /\ Free(r)
  /\ started' = started + 1
  /\ \E id \in ChatIds \cup {"c0"} :
       loc' = [loc EXCEPT ![r].kind = "GET", ![r].n = started + 1, ![r].id = id]
  /\ Return(r, ResumableStreamsDisabled)
  /\ UNCHANGED <<chats, messages, env, stream, log>>

\* ------------------------------------------------------------ the system

\* The slot of a request that is over takes the next request.
Recycle(r) ==
  /\ pc[r] = "done"
  /\ started < MaxRequests
  /\ pc' = [pc EXCEPT ![r] = "idle"]
  /\ loc' = [loc EXCEPT ![r] = IdleLoc]
  /\ stream' = [stream EXCEPT ![r] = IdleStream]
  /\ response' = [response EXCEPT ![r] = ""]
  /\ log' = [log EXCEPT ![r] = <<>>]
  /\ UNCHANGED <<chats, messages, env, started>>

Next ==
  \E r \in Slots :
    \/ \E parts \in CoreParts : PostParse(r, parts)
    \/ PostRateLimit(r)
    \/ PostGetChat(r)
    \/ PostSaveChat(r)
    \/ PostSaveMessages(r)
    \/ PostGetMessages(r)
    \/ \E res \in CoreResults : PostFetch(r, res)
    \/ \E saveFails \in BOOLEAN : PostOnFinish(r, saveFails)
    \/ \E saveFails \in BOOLEAN : PostFallback(r, saveFails)
    \/ DeleteParse(r)
    \/ DeleteGetChat(r)
    \/ DeleteChat(r)
    \/ GetStream(r)
    \/ Recycle(r)

Spec == Init /\ [][Next]_vars

\* One request alone, with everything the webhook may answer and every
\* shape of writer.
InitRelay == InitWith({0}, SUBSET WriterMethods, MaxRequests - 1)

NextRelay ==
  \/ \E parts \in CoreParts : PostParse(1, parts)
  \/ PostRateLimit(1)
  \/ PostGetChat(1)
  \/ PostSaveChat(1)
  \/ PostSaveMessages(1)
  \/ PostGetMessages(1)
  \/ \E res \in FetchResults : PostFetch(1, res)
  \/ \E saveFails \in BOOLEAN : PostOnFinish(1, saveFails)
  \/ \E saveFails \in BOOLEAN : PostFallback(1, saveFails)

SpecRelay == InitRelay /\ [][NextRelay]_vars

\* One request alone, with a message of every shape.
InitTitle == InitWith({0, MaxSeedTurns}, {{"close", "finish"}}, MaxRequests - 1)

NextTitle ==
  \/ \E parts \in TitleParts : PostParse(1, parts)
  \/ PostRateLimit(1)
  \/ PostGetChat(1)
  \/ PostSaveChat(1)
  \/ PostSaveMessages(1)
  \/ PostGetMessages(1)
  \/ \E res \in CoreResults : PostFetch(1, res)
  \/ \E saveFails \in BOOLEAN : PostOnFinish(1, saveFails)
  \/ \E saveFails \in BOOLEAN : PostFallback(1, saveFails)

SpecTitle == InitTitle /\ [][NextTitle]_vars

\* One request alone, handled by the variant with the detached task.
InitDetached ==
  InitWith({0, MaxSeedTurns}, {{}, {"close", "finish"}}, MaxRequests - 1)

NextDetached ==
  \/ \E parts \in CoreParts : PostParse(1, parts)
  \/ PostRateLimit(1)
  \/ PostGetChat(1)
  \/ PostSaveChat(1)
  \/ PostHistory(1)
  \/ DetachedSaveMessages(1)
  \/ DetachedClose(1)
  \/ \E res \in FetchResults : DetachedFetch(1, res)
  \/ \E saveFails \in BOOLEAN : DetachedOnFinish(1, saveFails)

SpecDetached == InitDetached /\ [][NextDetached]_vars

\* One request alone, handled by the variant that persists inside execute.
InitInline ==
  InitWith({0, MaxSeedTurns}, {{}, {"close", "finish"}}, MaxRequests - 1)

NextInline ==
  \/ \E parts \in CoreParts : PostParse(1, parts)
  \/ PostRateLimit(1)
  \/ PostGetChat(1)
  \/ PostSaveChat(1)
  \/ PostHistory(1)
  \/ InlineSaveMessages(1)
  \/ \E res \in FetchResults : InlineFetch(1, res)
  \/ \E saveFails \in BOOLEAN : InlineSaveTry(1, saveFails)
  \/ \E saveFails \in BOOLEAN : InlineSaveCatch(1, saveFails)

SpecInline == InitInline /\ [][NextInline]_vars

\* ---------------------------------------------------------------- claims

Has(calls, c) == \E i \in DOMAIN calls : calls[i] = c
Count(calls, c) == Cardinality({ i \in DOMAIN calls : calls[i] = c })
\* Every call b of the sequence has a call a before it.
Precedes(calls, a, b) ==
  \A j \in DOMAIN calls :
    calls[j] = b => \E i \in DOMAIN calls : i < j /\ calls[i] = a
StoreWrites ==
  {"saveChat", "saveMessages", "saveMessages:onFinish",
   "saveMessages:fallback", "deleteChatById"}
NoWrites(calls) == \A i \in DOMAIN calls : calls[i] \notin StoreWrites
\* The rows of a message table that hold the user's message of slot r.
UserRows(rows, r) ==
  { i \in DOMAIN rows :
      rows[i] = MessageRow(loc[r].messageId, loc[r].id, "user", UserText) }
Quota(r) == maxMessagesPerDay(UserType(loc[r].user))
Posts == { r \in Slots : loc[r].kind = "POST" }
Deletes == { r \in Slots : loc[r].kind = "DELETE" }

\* C1: a POST whose count of messages of the last 24 hours exceeds the quota
\* of the caller's tier is over with rate_limit, has called neither saveChat
\* nor saveMessages and has left no message row; and no POST calls saveChat
\* or saveMessages before it has made the quota check.
C1_Theorem ==
  \A r \in Posts :
    /\ ( /\ Has(log[r], "getMessageCountByUserId")
         /\ loc[r].messageCount > Quota(r) )
       => /\ pc[r] = "done"
          /\ response[r] = "rate_limit:chat"
          /\ NoWrites(log[r])
          /\ UserRows(messages, r) = {}
    /\ Precedes(log[r], "getMessageCountByUserId", "saveChat")
    /\ Precedes(log[r], "getMessageCountByUserId", "saveMessages")

C1_Witness ==
  \E r \in Posts :
    /\ response[r] = "rate_limit:chat"
    /\ loc[r].messageCount > Quota(r)

\* The chat that the guard of slot r looked up exists and is another user's.
OthersChat(r) ==
  /\ Has(log[r], "getChatById")
  /\ loc[r].chat # NoChat
  /\ loc[r].chat.userId # loc[r].user

\* C2: a POST or a DELETE on an existing chat of another user is over with
\* forbidden and has made no write (no chat created or deleted, no message
\* written), and the step that rejects it leaves the store as it was.
C2_Theorem ==
  /\ [](\A r \in Slots :
          OthersChat(r) =>
            /\ pc[r] = "done"
            /\ response[r] = "forbidden:chat"
            /\ NoWrites(log[r])
            /\ loc[r].kind = "POST" => UserRows(messages, r) = {})
  /\ [][\A r \in Slots :
          (response[r] = "" /\ response'[r] = "forbidden:chat")
            => UNCHANGED <<chats, messages>>]_vars

C2_Witness ==
  \E r \in Posts, d \in Deletes :
    /\ OthersChat(r) /\ response[r] = "forbidden:chat"
    /\ OthersChat(d) /\ response[d] = "forbidden:chat"

\* The guard of slot r found no chat of the request's id.
NewConversation(r) ==
  /\ loc[r].kind = "POST"
  /\ Has(log[r], "getChatById")
  /\ loc[r].chat = NoChat

\* C3: a POST that passed the quota check and found no chat of its id is
\* not rejected at the guard, calls saveChat exactly once, with the id of the
\* request and the caller as the owner, and before fetch is called; a POST
\* that found its chat does not call saveChat.
C3_Theorem ==
  /\ [](\A r \in Posts :
          /\ NewConversation(r) =>
               /\ response[r] # "forbidden:chat"
               /\ Count(log[r], "saveChat") = (IF pc[r] = "saveChat" THEN 0 ELSE 1)
               /\ Precedes(log[r], "saveChat", "fetch")
          /\ ~NewConversation(r) => ~Has(log[r], "saveChat"))
  /\ [][\A r \in Slots :
          Count(log'[r], "saveChat") > Count(log[r], "saveChat")
            => /\ Len(chats') = Len(chats) + 1
               /\ SubSeq(chats', 1, Len(chats)) = chats
               /\ chats'[Len(chats')].id = loc[r].id
               /\ chats'[Len(chats')].userId = loc[r].user]_vars

C3_Witness ==
  \E r \in Posts :
    /\ NewConversation(r)
    /\ Has(log[r], "fetch")
    /\ Count(log[r], "saveChat") = 1
    /\ \E i \in DOMAIN chats :
         chats[i].id = loc[r].id /\ chats[i].userId = loc[r].user

\* C4: a POST that passed the guard calls saveMessages for the user's message
\* exactly once, before fetch is called; that call leaves exactly one row of
\* the message in the table, and no later step of the request (whatever
\* fetch settled with, whatever onFinish does) removes or repeats it.
C4_Theorem ==
  /\ [](\A r \in Posts :
          /\ Count(log[r], "saveMessages")
               = (IF pc[r] \in {"getMessages", "fetch", "onFinish", "fallback"}
                     \/ Has(log[r], "getMessagesByChatId")
                  THEN 1 ELSE 0)
          /\ Precedes(log[r], "saveMessages", "fetch"))
  /\ [][\A r \in Slots :
          /\ (pc[r] = "saveMessages" /\ pc'[r] # pc[r])
               => Cardinality(UserRows(messages', r)) = 1
          /\ ( /\ pc[r] \in {"getMessages", "fetch", "onFinish", "fallback"}
               /\ pc'[r] # pc[r] )
               => Cardinality(UserRows(messages', r))
                    = Cardinality(UserRows(messages, r))]_vars

C4_Witness ==
  \E r \in Posts :
    /\ pc[r] = "done"
    /\ loc[r].assistantFullText = ApologyText
    /\ Cardinality(UserRows(messages, r)) = 1

\* The stream of slot r is the one assistant message with this text.
Delivered(r, text) ==
  /\ response[r] = "stream"
  /\ stream[r].chunks =
       << MessageStart(loc[r].msgId), TextDelta(loc[r].msgId, text),
          MessageEnd(loc[r].msgId) >>

\* execute of slot r has run to its end, and what fetch settled with is at hand.
Settled(r) == loc[r].kind = "POST" /\ pc[r] = "onFinish"

\* C5: when fetch rejects, the handler has returned the stream (no error
\* response) and the stream carries the fixed apology as its text.
C5_Theorem ==
  \A r \in Slots :
    (Settled(r) /\ loc[r].res.threw)
      => Delivered(r, "Sorry - I couldn't reach the agent right now.")

C5_Witness ==
  \E r \in Slots :
    /\ Settled(r) /\ loc[r].res.threw
    /\ DeltaText(stream[r].chunks)
         = "Sorry - I couldn't reach the agent right now."

NotOk(r) == Settled(r) /\ ~loc[r].res.threw /\ ~loc[r].res.ok

\* The body of the response of slot r as res.text() gives it, "" when the
\* read fails.
BodyRead(r) ==
  IF loc[r].res.readFails THEN "" ELSE BodyText(loc[r].res.body)

\* C6: when the response is not ok, the text delivered is the body when the
\* body read is not empty, else the sentence that names the status; no key
\* of a JSON body is extracted, and the handler has returned the stream.
C6_Theorem ==
  \A r \in Slots :
    NotOk(r) =>
      Delivered(r,
        IF BodyRead(r) # "" THEN BodyRead(r)
        ELSE "Sorry - the workflow returned " \o ToString(loc[r].res.status)
               \o " " \o loc[r].res.statusText \o ".")

C6_Witness ==
  \E r \in Slots :
    /\ NotOk(r)
    /\ loc[r].res.body = RawBody("")
    /\ DeltaText(stream[r].chunks)
         = "Sorry - the workflow returned 503 Service Unavailable."

\* An ok response with a JSON content type whose body parsed to an object.
OkJsonObject(r) ==
  /\ Settled(r) /\ ~loc[r].res.threw /\ loc[r].res.ok
  /\ loc[r].res.ct \in {CtJson, CtJsonCharset}
  /\ loc[r].res.body.json /\ ~loc[r].res.readFails
  /\ loc[r].res.body.data.t = "object"

KeyOrder == <<"output", "answer", "text", "message">>
\* The member holds reply text: it is there, not null, and not empty.
HoldsText(v) == v.t \notin {"null", "undefined"} /\ ToStr(v) # ""
TextKeys(data) == { i \in DOMAIN KeyOrder : HoldsText(Prop(data, KeyOrder[i])) }
FirstText(data) ==
  LET i == CHOOSE i \in TextKeys(data) : \A j \in TextKeys(data) : i <= j
  IN ToStr(Prop(data, KeyOrder[i]))

\* C7: for an ok JSON response the text delivered is the value of the first
\* of output, answer, text, message that holds reply text, and the whole
\* body serialized when none of them does.
C7_Claim ==
  \A r \in Slots :
    OkJsonObject(r) =>
      Delivered(r,
        IF TextKeys(loc[r].res.body.data) # {}
        THEN FirstText(loc[r].res.body.data)
        ELSE JSONstringify(loc[r].res.body.data))

\* An ok response whose content type is not JSON.
OkNotJson(r) ==
  /\ Settled(r) /\ ~loc[r].res.threw /\ loc[r].res.ok
  /\ loc[r].res.ct \in {CtText, <<>>}

\* C8 as stated: for an ok response that is not JSON the text delivered is
\* the body, literally.
C8_Claim ==
  \A r \in Slots : OkNotJson(r) => Delivered(r, BodyText(loc[r].res.body))

\* C8 as amended: for an ok response that is not JSON the text delivered is
\* the body, literally and without key extraction, when the body is read and
\* is not empty; the no-reply placeholder when it is empty; the apology when
\* reading it fails.
C8_Theorem ==
  \A r \in Slots :
    OkNotJson(r) =>
      Delivered(r,
        IF loc[r].res.readFails
        THEN "Sorry - I couldn't reach the agent right now."
        ELSE IF BodyText(loc[r].res.body) = ""
        THEN "I didn't receive a reply from the agent."
        ELSE BodyText(loc[r].res.body))

C8_Witness ==
  \E r \in Slots :
    /\ OkNotJson(r)
    /\ loc[r].res.body = RawBody("hello") /\ ~loc[r].res.readFails
    /\ DeltaText(stream[r].chunks) = "hello"

\* C9: once execute is over, on any of its paths, the writer has been
\* finalized.
C9_Claim ==
  \A r \in Slots :
    (loc[r].kind = "POST" /\ Has(log[r], "finishWriter"))
      => stream[r].finished # ""

\* C10: a POST that has persisted the user's message does not end with an
\* error response: what the caller gets is the stream.
C10_Claim ==
  \A r \in Posts :
    Has(log[r], "saveMessages") => response[r] \in {"", "stream"}

\* C11: a POST that ends with offline has made no write to the store, has
\* not called fetch and has opened no stream.
C11_Claim ==
  \A r \in Posts :
    response[r] = "offline:chat"
      => /\ NoWrites(log[r])
         /\ ~Has(log[r], "fetch")
         /\ stream[r] = IdleStream

\* The body of the POST of slot r did not parse: the handler has no id.
InvalidBody(r) == loc[r].kind = "POST" /\ loc[r].id = ""
\* The body parsed and auth() gave no user.
NoIdentity(r) ==
  loc[r].kind = "POST" /\ loc[r].id # "" /\ loc[r].user = NoUser

\* C12: a POST with an invalid body is over with bad_request and one with no
\* caller identity is over with unauthorized; either has made no call at all
\* (no quota query, no chat or message write, no fetch) and has no stream,
\* and the step that turns it away leaves the store as it was.
C12_Theorem ==
  /\ [](\A r \in Slots :
          /\ InvalidBody(r) => response[r] = "bad_request:api"
          /\ NoIdentity(r) => response[r] = "unauthorized:chat"
          /\ (InvalidBody(r) \/ NoIdentity(r))
               => /\ pc[r] = "done"
                  /\ log[r] = <<>>
                  /\ stream[r] = IdleStream)
  /\ [][\A r \in Slots :
          ( /\ response[r] = ""
            /\ response'[r] \in {"bad_request:api", "unauthorized:chat"} )
            => UNCHANGED <<chats, messages>>]_vars

C12_Witness ==
  \E r \in Slots, q \in Slots :
    /\ InvalidBody(r) /\ response[r] = "bad_request:api"
    /\ NoIdentity(q) /\ response[q] = "unauthorized:chat"
    /\ Len(messages) > 0

\* C13: no exception leaves onFinish: a save of the assistant's reply that
\* fails is caught, the fallback save included.
C13_Claim == \A r \in Posts : ~loc[r].unhandled

\* C14: the text delivered is never empty: an ok response with an empty text
\* body gives the no-reply placeholder, a response that is not ok with an
\* empty body gives the sentence that names the status, a rejected fetch the
\* apology; and the text kept for the store is not empty either.
C14_Theorem ==
  \A r \in Slots :
    Settled(r) =>
      /\ response[r] = "stream"
      /\ DeltaText(stream[r].chunks) # ""
      /\ loc[r].assistantFullText # ""
      /\ (OkNotJson(r) /\ ~loc[r].res.readFails /\ loc[r].res.body = RawBody(""))
           => DeltaText(stream[r].chunks)
                = "I didn't receive a reply from the agent."
      /\ (NotOk(r) /\ BodyRead(r) = "")
           => DeltaText(stream[r].chunks)
                = "Sorry - the workflow returned "
                    \o ToString(loc[r].res.status) \o " "
                    \o loc[r].res.statusText \o "."
      /\ loc[r].res.threw
           => DeltaText(stream[r].chunks)
                = "Sorry - I couldn't reach the agent right now."

C14_Witness ==
  \E r \in Slots :
    /\ OkNotJson(r) /\ ~loc[r].res.readFails /\ loc[r].res.body = RawBody("")
    /\ DeltaText(stream[r].chunks) = "I didn't receive a reply from the agent."

\* C15: the history sent with fetch ends with the new user message and holds
\* it exactly once, after the messages the chat had before this turn.
C15_Claim ==
  \A r \in Posts :
    Has(log[r], "fetch") =>
      LET h == loc[r].history IN
        /\ h # <<>>
        /\ h[Len(h)] = UIMessage(loc[r].messageId, "user", UserText)
        /\ Cardinality({ i \in DOMAIN h : h[i].id = loc[r].messageId }) = 1

\* The message of slot r has no part that bears text.
NoTextPart(r) ==
  \A i \in DOMAIN loc[r].parts :
    loc[r].parts[i].kind \notin {"text", "input_text", "string"}

\* The words of a text: the places where a run of other than whitespace
\* starts.
WordStarts(text) ==
  { i \in DOMAIN text :
      /\ text[i] \notin {" ", "\t", "\n"}
      /\ (i = 1 \/ text[i - 1] \in {" ", "\t", "\n"}) }

\* C16: the title of a chat that a POST created has at most 8 words and at
\* most 80 characters, and is "New chat" when the message has no
\* text-bearing part.
C16_Claim ==
  \A r \in Posts :
    Has(log[r], "saveChat") =>
      LET title == chats[Len(chats)].title IN
        /\ Cardinality(WordStarts(title)) <= 8
        /\ Len(title) <= 80
        /\ NoTextPart(r) => title = <<"N", "e", "w", " ", "c", "h", "a", "t">>

\* C17: whatever POSTs run and however they interleave, a chat id is stored
\* with one owner, a step of a POST leaves every chat row there is as it is,
\* and a POST writes a chat row only for an id the store does not hold.
C17_Claim ==
  /\ [](\A i, j \in DOMAIN chats :
          chats[i].id = chats[j].id => chats[i].userId = chats[j].userId)
  /\ [][\A r \in Slots :
          (loc[r].kind = "POST" /\ pc'[r] # pc[r])
            => /\ Len(chats') >= Len(chats)
               /\ SubSeq(chats', 1, Len(chats)) = chats
               /\ chats' # chats => getChatById(chats, loc[r].id) = NoChat]_vars

\* The guard of the DELETE of slot d found the chat, and it is the caller's.
OwnChat(d) ==
  /\ loc[d].kind = "DELETE"
  /\ Has(log[d], "getChatById")
  /\ loc[d].chat # NoChat
  /\ loc[d].chat.userId = loc[d].user

\* C18: a DELETE that found the chat of its id to be the caller's goes on
\* to deleteChatById and answers 200 with what that call returned; the
\* delete is called only with an id given, a caller identified and the chat
\* looked up and found to be the caller's; the call leaves no chat of that
\* id and takes no other chat.
C18_Theorem ==
  /\ [](\A d \in Deletes :
          /\ OwnChat(d)
               => /\ pc[d] \in {"d_delete", "done"}
                  /\ pc[d] = "done"
                       => /\ Has(log[d], "deleteChatById")
                          /\ response[d] = "deleted"
          /\ Has(log[d], "deleteChatById")
               => /\ loc[d].id # ""
                  /\ loc[d].user # NoUser
                  /\ OwnChat(d)
                  /\ loc[d].chat.id = loc[d].id
                  /\ Precedes(log[d], "getChatById", "deleteChatById")
                  /\ Count(log[d], "deleteChatById") = 1)
  /\ [][\A d \in Slots :
          Count(log'[d], "deleteChatById") > Count(log[d], "deleteChatById")
            => /\ \A i \in DOMAIN chats' : chats'[i].id # loc[d].id
               /\ \A i \in DOMAIN chats :
                    chats[i].id # loc[d].id
                      => \E j \in DOMAIN chats' : chats'[j] = chats[i]]_vars

C18_Witness ==
  \E d \in Deletes :
    /\ OwnChat(d)
    /\ response[d] = "deleted"
    /\ \A i \in DOMAIN chats : chats[i].id # loc[d].id

\* C19: a GET of the stream of any id, in any state of the store, is over
\* with 404 and the fixed body, has made no call and has no stream, and its
\* step leaves the store as it was.
C19_Theorem ==
  /\ [](\A r \in Slots :
          loc[r].kind = "GET"
            => /\ pc[r] = "done"
               /\ response[r]
                    = "404 {\"error\":\"Resumable streams are disabled.\"}"
               /\ log[r] = <<>>
               /\ stream[r] = IdleStream)
  /\ [][\A r \in Slots :
          (loc[r].kind # "GET" /\ loc'[r].kind = "GET")
            => UNCHANGED <<chats, messages>>]_vars

C19_Witness ==
  \E r \in Slots :
    /\ loc[r].kind = "GET"
    /\ response[r] = "404 {\"error\":\"Resumable streams are disabled.\"}"
    /\ \E i \in DOMAIN chats : chats[i].id = loc[r].id

\* C20: a stream holds one assistant message: message-start alone while
\* fetch is awaited, then message-start, text-delta, message-end in that
\* order once execute is over, whatever fetch settled with; every chunk has
\* the id that the request generated for the message.
C20_Theorem ==
  \A r \in Slots :
    response[r] = "stream" =>
      LET chunks == stream[r].chunks IN
        /\ ~Has(log[r], "finishWriter")
             => /\ Len(chunks) = 1
                /\ chunks[1].type = "message-start"
        /\ Has(log[r], "finishWriter")
             => /\ Len(chunks) = 3
                /\ chunks[1].type = "message-start"
                /\ chunks[2].type = "text-delta"
                /\ chunks[3].type = "message-end"
        /\ \A i \in DOMAIN chunks : chunks[i].id = loc[r].msgId
        /\ loc[r].msgId # loc[r].messageId

C20_Witness ==
  \E r \in Slots :
    /\ NotOk(r)
    /\ Len(stream[r].chunks) = 3
    /\ stream[r].chunks[3].type = "message-end"
    /\ stream[r].chunks[3].id = stream[r].chunks[1].id

\* C21: the creating write and the insertion of the message look at nothing
\* that another request did since the lookup: a POST at saveChat writes the
\* row of its id with the caller as owner whether or not the store holds
\* that id by now, and a POST at saveMessages inserts its message whatever
\* chat rows there are.
C21_Theorem ==
  [][\A r \in Slots :
       /\ (loc[r].kind = "POST" /\ pc[r] = "saveChat" /\ pc'[r] # pc[r])
            => /\ pc'[r] = "saveMessages"
               /\ Len(chats') = Len(chats) + 1
               /\ chats'[Len(chats')].id = loc[r].id
               /\ chats'[Len(chats')].userId = loc[r].user
       /\ (loc[r].kind = "POST" /\ pc[r] = "saveMessages" /\ pc'[r] # pc[r])
            => /\ Len(messages') = Len(messages) + 1
               /\ messages'[Len(messages')].chatId = loc[r].id
               /\ messages'[Len(messages')].id = loc[r].messageId]_vars

\* Two requests in flight for one new id, both having read the chat as
\* absent, both having created it and both having inserted their message.
C21_Witness ==
  \E r \in Posts, q \in Posts :
    /\ r # q
    /\ loc[r].id = loc[q].id
    /\ NewConversation(r) /\ NewConversation(q)
    /\ Has(log[r], "saveChat") /\ Has(log[q], "saveChat")
    /\ Has(log[r], "saveMessages") /\ Has(log[q], "saveMessages")
    /\ Cardinality({ i \in DOMAIN chats : chats[i].id = loc[r].id }) = 2

\* C22: in the variant with the detached task, the stream is not finalized
\* before the task has written: no write of the task comes after the close
\* that follows the return of execute, and what the task wrote is in the
\* stream.
C22_Claim ==
  \A r \in Posts :
    \A j \in DOMAIN log[r] :
      log[r][j] = "write"
        => /\ \A i \in 1..j : log[r][i] # "close"
           /\ Len(stream[r].chunks) = 3

\* C23: in the variant that persists inside execute, once the text delta
\* and text-end are written and finishWriter is called nothing more is
\* written: the request writes its reply once and the stream holds one text
\* delta, also when the save that follows throws.
C23_Claim ==
  \A r \in Posts :
    /\ Count(log[r], "write") <= 1
    /\ Cardinality({ i \in DOMAIN stream[r].chunks :
                       stream[r].chunks[i].type = "text-delta" }) <= 1

\* The rows of the message table that the requests of slot r's serial wrote
\* as the assistant.
AssistantRows(r) ==
  { i \in DOMAIN messages :
      /\ messages[i].role = "assistant"
      /\ messages[i].id \in {MsgIdOf(loc[r].n), FallbackIdOf(loc[r].n)} }

\* C24: once execute has run, assistantFullText is the text of the stream's
\* text delta, whichever path execute took; the fallback save is called at
\* most once, and when it succeeded the store holds one assistant message of
\* the request, under the fallback's id and with the text the stream carries.
C24_Theorem ==
  \A r \in Posts :
    /\ Has(log[r], "finishWriter")
         => /\ loc[r].assistantFullText = DeltaText(stream[r].chunks)
            /\ Count(stream[r].chunks, 
                     TextDelta(loc[r].msgId, loc[r].assistantFullText)) = 1
    /\ Count(log[r], "saveMessages:fallback") <= 1
    /\ Cardinality(AssistantRows(r)) <= 1
    /\ (Has(log[r], "saveMessages:fallback") /\ ~loc[r].unhandled)
         => \E i \in AssistantRows(r) :
              messages[i] = MessageRow(FallbackIdOf(loc[r].n), loc[r].id,
                                       "assistant",
                                       DeltaText(stream[r].chunks))

\* A reply was streamed, the save of onFinish threw and the fallback saved
\* the text of the stream.
C24_Witness ==
  \E r \in Posts :
    /\ Has(log[r], "saveMessages:fallback")
    /\ ~loc[r].unhandled
    /\ DeltaText(stream[r].chunks) \notin {"", ApologyText, NoReplyText}
    /\ \E i \in AssistantRows(r) :
         messages[i].text = DeltaText(stream[r].chunks)

\* C25: the comparison with the quota is strict: a POST that has made the
\* quota check is rejected with rate_limit exactly when the count it read is
\* greater than the quota of the caller's tier, so a count equal to the quota
\* is admitted, and the message of a request admitted at the quota is saved
\* on top of the quota.
C25_Theorem ==
  \A r \in Posts :
    Has(log[r], "getMessageCountByUserId")
      => /\ response[r] = "rate_limit:chat" <=> loc[r].messageCount > Quota(r)
         /\ loc[r].messageCount = Quota(r) => pc[r] # "rateLimit"
         /\ ( /\ loc[r].messageCount = Quota(r)
              /\ Has(log[r], "saveMessages") )
              => response[r] \notin {"rate_limit:chat", "forbidden:chat"}

\* A caller with quota Q, after requests made one after the other: the latest
\* read a count of Q, was admitted and saved its message, and the store holds
\* Q + 1 messages of the caller, all of them written by these requests.
C25_Witness ==
  \E r \in Posts :
    /\ loc[r].messageCount = Quota(r)
    /\ Has(log[r], "saveMessages")
    /\ response[r] # "rate_limit:chat"
    /\ getMessageCountByUserId(chats, messages, loc[r].user) = Quota(r) + 1
    /\ \A i \in DOMAIN messages : messages[i].id > 0

\* C26: a DELETE whose lookup found no conversation is over with forbidden
\* and has not called deleteChatById; and a DELETE is at deleteChatById, or
\* has called it, only when the conversation it looked up exists and is owned
\* by the caller.
C26_Theorem ==
  \A d \in Deletes :
    /\ (Has(log[d], "getChatById") /\ loc[d].chat = NoChat)
         => /\ pc[d] = "done"
            /\ response[d] = "forbidden:chat"
            /\ ~Has(log[d], "deleteChatById")
    /\ (pc[d] = "d_delete" \/ Has(log[d], "deleteChatById"))
         => /\ Has(log[d], "getChatById")
            /\ loc[d].chat # NoChat
            /\ loc[d].chat.userId = loc[d].user
            /\ loc[d].chat.id = loc[d].id

\* A DELETE of an id no conversation has was rejected with forbidden.
C26_Witness ==
  \E d \in Deletes :
    /\ Has(log[d], "getChatById")
    /\ loc[d].chat = NoChat
    /\ getChatById(chats, loc[d].id) = NoChat
    /\ response[d] = "forbidden:chat"

====
